---- MODULE Spec2Model ----
(***************************************************************************)
(* Model of the alert notification dispatch of KUMA-EYE:                   *)
(*   backend/app/services/notification_service.py  (notify_for_alert)      *)
(*   backend/app/usecases/upload_processing.py, stream_processing.py and   *)
(*   backend/app/api/uploads.py  (the pipelines that call it)              *)
(*   backend/app/services/geocoding_service.py  (reverse_geocode)          *)
(* Several invocations of notify_for_alert, each on its own database       *)
(* session, interleave at their database statements and at the outbound    *)
(* send_email call.  The shared state is the alert_notifications ledger    *)
(* and PostgreSQL's table of transaction-scoped advisory locks.            *)
(***************************************************************************)
EXTENDS Integers, Sequences, FiniteSets, TLC

(* ---------------------------------------------------------------- bounds *)
NumInvocations == 2
NumUsers == 2
MaxFrames == 3
MaxGeoCalls == 4
NumFrameRequests == 2
MaxReconnects == 1
NumSyncCalls == 3
MaxDetections == 1

Invocations == 1..NumInvocations
Users == 1..NumUsers
FrameRequests == 1..NumFrameRequests
SyncCalls == 1..NumSyncCalls

(* ------------------------------------------------------ program constants *)
NOTIFY_RADIUS_METERS == 5000
NOTIFY_STALE_MINUTES == 30
ERROR_MESSAGE_MAX == 2000
EMAIL_ATTACHMENT_MAX_BYTES == 10485760
GEOCODING_CACHE_MAX_SIZE == 2

NOTIFIABLE_ALERT_LEVELS == {"critical", "warning", "caution"}

(* nullable column / Optional value: the empty set is NULL / None *)
Null == {}
Some(v) == {v}
Val(s) == CHOOSE v \in s : TRUE

(* ------------------------------------------------------------ the tables *)
\* the file behind sighting.image_path as _build_image_attachment sees it
OkImage ==
    [has_path |-> TRUE, inside_root |-> TRUE, is_file |-> TRUE,
     size |-> EMAIL_ATTACHMENT_MAX_BYTES, suffix |-> ".jpg", readable |-> TRUE]
OversizedImage == [OkImage EXCEPT !.size = EMAIL_ATTACHMENT_MAX_BYTES + 1]

\* what reverse_geocode returns for the sighting's coordinates
FullAddress == [prefecture |-> Some("state"), municipality |-> Some("city")]

\* alerts joined with their sighting (reduced to a position on a line, in
\* metres), the sighting's image file and the answer of reverse_geocode for
\* its coordinates.  Ids 1..4 are persisted, id 5 is not.
AlertIds == 1..5
AlertTable ==
    [a \in 1..4 |->
        CASE a = 1 -> [id |-> a, alert_level |-> "critical", sighting |-> Some(0),
                       image |-> OkImage, address |-> Some(FullAddress)]
          [] a = 2 -> [id |-> a, alert_level |-> "warning",  sighting |-> Some(0),
                       image |-> OversizedImage, address |-> Null]
          [] a = 3 -> [id |-> a, alert_level |-> "caution",  sighting |-> Null,
                       image |-> OkImage, address |-> Null]
          [] a = 4 -> [id |-> a, alert_level |-> "low",      sighting |-> Some(0),
                       image |-> OkImage, address |-> Some(FullAddress)]]

VARIABLES
    alerts,             \* alerts table, each row joined with its sighting
    run,                \* one processing pipeline run (upload or stream session)
    geo,                \* geocoding_service: settings, _cache and call counts
    stream,             \* one stream session, its upload row and its requests
    sync                \* the users rows of one Firebase uid and the sync calls

\* _get_alert: .filter(Alert.id == alert_id).first()
GetAlert(id) ==
    IF id \in DOMAIN alerts THEN Some(alerts[id]) ELSE Null

Abs(x) == IF x < 0 THEN -x ELSE x

\* a distance test that leaves the boundary out
ST_DWithin_Strict(p, q, radius) == Abs(p - q) < radius

\* func.ST_DWithin(user.location, alert_point, radius)
ST_DWithin(p, q, radius) == Abs(p - q) <= radius

VARIABLES
    users,              \* users table: [Users -> row]
    now,                \* datetime.now(), in minutes
    message,            \* subject, body and attachments each invocation composed
    ledger,             \* alert_notifications table: set of rows
    locks,              \* advisory locks held: set of [key, owner]
    sendlog,            \* every send_email call made: [inv, alert_id, user_id, ok]
    pc,                 \* position of each invocation
    alert_id,           \* argument of each invocation
    stats,              \* the stats dict of each invocation
    recipients,         \* list returned by _get_nearby_recipients
    idx,                \* position of the for loop in recipients
    existing_user_ids,  \* the set built at lines 220-228
    exc,                \* the exception caught at line 259
    did,                \* what each invocation has done so far
    prior,              \* the invocations that had returned when this one was called
    snapshot            \* the ledger as it was when this invocation read it

vars == <<alerts, run, geo, stream, sync, users, now, message,
          ledger, locks, sendlog, pc, alert_id, stats, recipients,
          idx, existing_user_ids, exc, did, prior, snapshot>>

shared == <<alerts, run, geo, stream, sync, users, now, message>>
history == <<prior, snapshot>>

(* ------------------------------------------------------------- inputs *)
\* DetectionService.calculate_alert_level for a frame with detections
AlertLevels == {"critical", "warning", "caution", "low"}

\* execute_upload_processing, process_upload / process_frame_upload of
\* api/uploads.py, and one stream session fed by upload_stream_frame
PipelineKinds == {"upload", "api", "stream"}

\* coordinates handed to reverse_geocode, <<latitude, longitude>> in units
\* of 1e-7 degree: the first two differ only beyond the sixth decimal
GeoPoints == {<<0, 0>>, <<4, 0>>, <<10, 0>>, <<0, 20>>, <<31, 32>>}

\* what _extract_address_components makes of a response
AddressResults ==
    {[prefecture |-> Some("state"), municipality |-> Some("city")],
     [prefecture |-> Null, municipality |-> Null]}

\* the module as imported: _cache = {}
\* point and outcome are the argument and the way out of the last call,
\* failed_keys the keys whose request has raised so far
NoGeo ==
    [enabled |-> FALSE, cache |-> <<>>, calls |-> 0, outbound |-> 0,
     last |-> Null, point |-> Null, outcome |-> "none", failed_keys |-> {}]

\* no pipeline is running
\* status and error_len are the upload row's status and the length of its
\* error_message ("missing": there is no such row); result is what the run
\* handed back to its caller, "raised" for an exception
NoRun ==
    [kind |-> "none", pc |-> "finished", frames |-> 0, alert_level |-> Null,
     alert_id |-> Null, notification_dispatched |-> FALSE,
     calls |-> <<>>, returned |-> {}, raised |-> {},
     status |-> "missing", error_len |-> Null, result |-> Null]

\* a run about to be started on an upload row that is still pending
NewRun(kind) ==
    [NoRun EXCEPT !.kind = kind, !.pc = "start", !.status = "pending"]

\* no stream session: the session table of the manager is empty; upload is
\* the status of the session's upload row, sightings the number of sighting
\* rows (each with its alert) stored for it, stop and req the positions of
\* the stop request and of the frame requests
NoStream ==
    [status |-> "none", frames_received |-> 0, frames_processed |-> 0,
     detections_count |-> 0, reconnect_attempts |-> 0,
     upload |-> "missing", sightings |-> 0, stop |-> "idle",
     req |-> [r \in FrameRequests |-> "idle"],
     found |-> [r \in FrameRequests |-> 0]]

\* StreamSession as create_session builds it, after start_stream_session
\* has committed the upload row with status 'processing'
NewStream ==
    [NoStream EXCEPT !.status = "active", !.upload = "processing"]

\* no sync call under way; rows are the users rows with the uid of the
\* token, each [id, email] (name is written together with email)
NoSync ==
    [rows |-> {},
     pc |-> [c \in SyncCalls |-> "idle"],
     created |-> [c \in SyncCalls |-> Null],
     lost |-> [c \in SyncCalls |-> FALSE]]

\* image files that fail one check of _build_image_attachment each: no
\* path, outside the storage root, missing, one byte over the limit, a
\* suffix that is not allow-listed, unreadable
ImageFiles ==
    {OkImage, OversizedImage,
     [OkImage EXCEPT !.has_path = FALSE],
     [OkImage EXCEPT !.inside_root = FALSE],
     [OkImage EXCEPT !.is_file = FALSE],
     [OkImage EXCEPT !.suffix = ".bmp"],
     [OkImage EXCEPT !.readable = FALSE]}

\* what reverse_geocode can return: None (disabled, failed, timed out), or
\* the AddressResult of a response with both, one or none of its parts
GeocodeReturns ==
    {Null, Some(FullAddress),
     Some([prefecture |-> Some("state"), municipality |-> Null]),
     Some([prefecture |-> Null, municipality |-> Null]),
     Some([prefecture |-> Some(""), municipality |-> Some("")])}

\* rows of the users table a run starts from
NearbyUser ==
    [email_opt_in |-> TRUE, email |-> Some("addr"),
     location |-> Some(NOTIFY_RADIUS_METERS), location_updated_at |-> Some(1)]
OptedOutUser ==
    [email_opt_in |-> FALSE, email |-> Some("addr"),
     location |-> Some(0), location_updated_at |-> Some(1)]
UserProfiles == {NearbyUser, OptedOutUser}

\* rows that fail one condition of the recipient query each: no address, an
\* empty address, no location, one metre beyond the radius, no location
\* timestamp, a timestamp one minute older than the staleness window
SelectionProfiles ==
    UserProfiles \cup
    {[NearbyUser EXCEPT !.email = Null],
     [NearbyUser EXCEPT !.email = Some("")],
     [NearbyUser EXCEPT !.location = Null],
     [NearbyUser EXCEPT !.location = Some(NOTIFY_RADIUS_METERS + 1)],
     [NearbyUser EXCEPT !.location_updated_at = Null],
     [NearbyUser EXCEPT !.location_updated_at = Some(0)]}

\* lengths of str(exc) of the exceptions send_email raises
ErrorTextLengths == {0, 7, ERROR_MESSAGE_MAX + 1}

(* ------------------------------------------------- notification_service *)
NewStats ==
    [processed |-> FALSE, eligible |-> FALSE, targets |-> 0,
     sent |-> 0, failed |-> 0, skipped |-> 0]

\* a level table that lets "low" through
IsNotifiable_LowIncluded(alert_level) ==
    alert_level \in NOTIFIABLE_ALERT_LEVELS \cup {"low"}

IsNotifiable(alert_level) == alert_level \in NOTIFIABLE_ALERT_LEVELS

\* _get_nearby_recipients: the filter chain of the query
\* a selection that does not look at the age of the location
NearbyRecipients_NoStaleness(alert) ==
    IF alert.sighting = Null THEN {}
    ELSE {u \in Users :
             /\ users[u].email_opt_in = TRUE
             /\ users[u].email # Null
             /\ users[u].email # Some("")
             /\ users[u].location # Null
             /\ users[u].location_updated_at # Null
             /\ ST_DWithin(Val(users[u].location), Val(alert.sighting),
                           NOTIFY_RADIUS_METERS)}

NearbyRecipients(alert) ==
    IF alert.sighting = Null THEN {}
    ELSE LET stale_threshold == now - NOTIFY_STALE_MINUTES
             alert_point == Val(alert.sighting)
         IN {u \in Users :
                /\ users[u].email_opt_in = TRUE
                /\ users[u].email # Null
                /\ users[u].email # Some("")
                /\ users[u].location # Null
                /\ users[u].location_updated_at # Null
                /\ Val(users[u].location_updated_at) >= stale_threshold
                /\ ST_DWithin(Val(users[u].location), alert_point,
                              NOTIFY_RADIUS_METERS)}

\* .all() gives the rows in no guaranteed order: any listing of the set
Listings(S) ==
    {s \in [1..Cardinality(S) -> S] : \A j, k \in DOMAIN s : j # k => s[j] # s[k]}

\* a key that leaves the alert out
LockKey_UserOnly(a, u) == <<0, u>>

\* lock_key = (alert_id << 32) | user_id, as (high word, low word) of the
\* 64-bit key: ids are Integer columns, below 2^31, so user_id fills the low
\* word only and alert_id the high word only
LockKey(a, u) == <<a, u>>

\* a lock that is always granted
TryLockNotificationSlot_Always(i, a, u) == TRUE

\* pg_try_advisory_xact_lock(lock_key): granted unless another session holds it
TryLockNotificationSlot(i, a, u) ==
    \A l \in locks : l.key = LockKey(a, u) => l.owner = i

\* the lock is reported granted but not taken
LocksWith_NotTaken(i, a, u) == locks

\* the lock table after the lock is granted to session i
LocksWith(i, a, u) == locks \cup {[key |-> LockKey(a, u), owner |-> i]}

\* the end of the transaction leaving its advisory locks in place
LocksReleased_Kept(i) == locks

\* commit or rollback ends the transaction: its advisory locks are released
LocksReleased(i) == {l \in locks : l.owner # i}

\* the pre-check of the ledger left out
AlreadyNotified_Never(i, u) == FALSE

\* user.id in existing_user_ids
AlreadyNotified(i, u) == u \in existing_user_ids[i]

\* a ledger without the unique constraint
UniqueViolation_Never(a, u, channel) == FALSE

\* unique (alert_id, user_id, channel) of alert_notifications
UniqueViolation(a, u, channel) ==
    \E r \in ledger : r.alert_id = a /\ r.user_id = u /\ r.channel = channel

\* str(exc)[:2000]
TruncatedLength(len) == IF len > ERROR_MESSAGE_MAX THEN ERROR_MESSAGE_MAX ELSE len

\* a row written before the outcome of the send is known
SentRow_Pending(i, a, u) ==
    [alert_id |-> a, user_id |-> u, channel |-> "email", status |-> "pending",
     error_message |-> Null, by |-> i]

\* lines 248-254: AlertNotification(..., channel="email", status="sent")
SentRow(i, a, u) ==
    [alert_id |-> a, user_id |-> u, channel |-> "email", status |-> "sent",
     error_message |-> Null, by |-> i]

FailedRow(i, a, u, len) ==
    [alert_id |-> a, user_id |-> u, channel |-> "email", status |-> "failed",
     error_message |-> Some(TruncatedLength(len)), by |-> i]

\* a conflicting insert that overwrites the stored row
LedgerAfterConflict_Upsert(i, a, u, len) ==
    {r \in ledger : ~(r.alert_id = a /\ r.user_id = u /\ r.channel = "email")}
        \cup {FailedRow(i, a, u, len)}

\* lines 276-277: the IntegrityError is answered with db.rollback(); the row
\* that caused it stays as stored
LedgerAfterConflict(i, a, u, len) == ledger

\* the lost race counted as a failure
CountLedgerConflict_AsFailed(st) == [st EXCEPT !.failed = @ + 1]

\* except IntegrityError: stats["skipped"] += 1
CountLedgerConflict(st) == [st EXCEPT !.skipped = @ + 1]

\* no except clause: the exception leaves notify_for_alert
AfterSendRaises_Propagates == "raised"

\* where control goes when send_email raises: the except clause of line 259
AfterSendRaises == "rollback"

\* processed set before the alert is looked at
NotFoundStats_Processed(st) == [st EXCEPT !.processed = TRUE]

\* lines 206-208: the alert is not found, stats is returned as built
NotFoundStats(st) == st

\* the exception of a failed database statement
DatabaseError == [type |-> "OperationalError", len |-> 7]

\* the load error swallowed, stats returned
AfterLoadRaises_Swallowed == "done"

\* line 205 has no handler: the exception leaves notify_for_alert
AfterLoadRaises == "raised"

\* the query error treated as an empty result, stats returned
AfterSelectRaises_Swallowed == "done"

\* line 215 has no handler: the exception leaves notify_for_alert
AfterSelectRaises == "raised"

Alert(i) == Val(GetAlert(alert_id[i]))
User(i) == recipients[i][idx[i]]

Init ==
    /\ alerts = AlertTable
    /\ run = NoRun
    /\ geo = NoGeo
    /\ users \in [Users -> UserProfiles]
    /\ now = NOTIFY_STALE_MINUTES + 1
    /\ stream = NoStream
    /\ sync = NoSync
    /\ message = [i \in Invocations |-> Null]
    /\ ledger = {}
    /\ locks = {}
    /\ sendlog = {}
    /\ pc = [i \in Invocations |-> "idle"]
    /\ alert_id = [i \in Invocations |-> 0]
    /\ stats = [i \in Invocations |-> NewStats]
    /\ recipients = [i \in Invocations |-> <<>>]
    /\ idx = [i \in Invocations |-> 0]
    /\ existing_user_ids = [i \in Invocations |-> {}]
    /\ exc = [i \in Invocations |-> Null]
    /\ did = [i \in Invocations |-> {}]
    /\ prior = [i \in Invocations |-> {}]
    /\ snapshot = [i \in Invocations |-> {}]

\* notify_for_alert(db, alert_id) is called: lines 195-203
Call(i, a) ==
    /\ pc[i] = "idle"
    /\ pc' = [pc EXCEPT ![i] = "load"]
    /\ alert_id' = [alert_id EXCEPT ![i] = a]
    /\ stats' = [stats EXCEPT ![i] = NewStats]
    /\ prior' = [prior EXCEPT ![i] = {j \in Invocations : pc[j] = "done"}]
    /\ UNCHANGED <<shared, ledger, locks, sendlog, recipients, idx,
                   existing_user_ids, exc, did, snapshot>>

\* lines 205-213: load the alert, gate on its level
LoadAlert(i) ==
    /\ pc[i] = "load"
    /\ IF GetAlert(alert_id[i]) = Null
       THEN /\ pc' = [pc EXCEPT ![i] = "done"]
            /\ stats' = [stats EXCEPT ![i] = NotFoundStats(@)]
       ELSE IF ~IsNotifiable(Alert(i).alert_level)
       THEN /\ pc' = [pc EXCEPT ![i] = "done"]
            /\ stats' = [stats EXCEPT ![i].processed = TRUE]
       ELSE /\ pc' = [pc EXCEPT ![i] = "select"]
            /\ stats' = [stats EXCEPT ![i].processed = TRUE, ![i].eligible = TRUE]
    /\ did' = [did EXCEPT ![i] = @ \cup {"load"}]
    /\ UNCHANGED <<shared, history, ledger, locks, sendlog, alert_id, recipients, idx,
                   existing_user_ids, exc>>

\* line 205 when the query of _get_alert raises: nothing catches it
LoadAlertRaises(i) ==
    /\ pc[i] = "load"
    /\ pc' = [pc EXCEPT ![i] = AfterLoadRaises]
    /\ exc' = [exc EXCEPT ![i] = Some(DatabaseError)]
    /\ did' = [did EXCEPT ![i] = @ \cup {"load"}]
    /\ UNCHANGED <<shared, history, ledger, locks, sendlog, alert_id, stats, recipients,
                   idx, existing_user_ids>>

\* lines 215-218: recipient selection
SelectRecipients(i) ==
    /\ pc[i] = "select"
    /\ \E list \in Listings(NearbyRecipients(Alert(i))) :
          /\ recipients' = [recipients EXCEPT ![i] = list]
          /\ stats' = [stats EXCEPT ![i].targets = Len(list)]
          /\ pc' = [pc EXCEPT ![i] = IF list = <<>> THEN "done" ELSE "existing"]
    /\ did' = [did EXCEPT ![i] = @ \cup {"select"}]
    /\ UNCHANGED <<shared, history, ledger, locks, sendlog, alert_id, idx,
                   existing_user_ids, exc>>

\* line 215 when the query of _get_nearby_recipients raises
SelectRecipientsRaises(i) ==
    /\ pc[i] = "select"
    /\ pc' = [pc EXCEPT ![i] = AfterSelectRaises]
    /\ exc' = [exc EXCEPT ![i] = Some(DatabaseError)]
    /\ did' = [did EXCEPT ![i] = @ \cup {"select"}]
    /\ UNCHANGED <<shared, history, ledger, locks, sendlog, alert_id, stats, recipients,
                   idx, existing_user_ids>>

\* lines 220-228: the one read of the ledger rows of this alert
ReadExisting(i) ==
    /\ pc[i] = "existing"
    /\ existing_user_ids' =
          [existing_user_ids EXCEPT ![i] =
              {r.user_id : r \in {q \in ledger : /\ q.alert_id = Alert(i).id
                                                 /\ q.channel = "email"}}]
    /\ pc' = [pc EXCEPT ![i] = "compose"]
    /\ did' = [did EXCEPT ![i] = @ \cup {"existing"}]
    /\ snapshot' = [snapshot EXCEPT ![i] = ledger]
    /\ UNCHANGED <<shared, ledger, locks, sendlog, alert_id, stats, recipients,
                   idx, exc, prior>>

\* mime_type_map of _build_image_attachment
MimeTypeMap ==
    [suffix \in {".jpg", ".jpeg", ".png", ".gif", ".webp"} |->
        CASE suffix = ".jpg" -> "image/jpeg"
          [] suffix = ".jpeg" -> "image/jpeg"
          [] suffix = ".png" -> "image/png"
          [] suffix = ".gif" -> "image/gif"
          [] suffix = ".webp" -> "image/webp"]

\* an attachment builder that does not look at the size of the file
BuildImageAttachment_AnySize(image) ==
    IF /\ image.has_path /\ image.inside_root /\ image.is_file
       /\ image.suffix \in DOMAIN MimeTypeMap /\ image.readable
    THEN Some([filename |-> "detected", mime_type |-> MimeTypeMap[image.suffix]])
    ELSE Null

\* _build_image_attachment: None unless the file is inside the storage
\* root, exists, is not larger than the limit, has an allow-listed suffix
\* and can be read
BuildImageAttachment(image) ==
    IF ~image.has_path THEN Null
    ELSE IF ~image.inside_root THEN Null
    ELSE IF ~image.is_file THEN Null
    ELSE IF image.size > EMAIL_ATTACHMENT_MAX_BYTES THEN Null
    ELSE IF image.suffix \notin DOMAIN MimeTypeMap THEN Null
    ELSE IF ~image.readable THEN Null
    ELSE Some([filename |-> "detected", mime_type |-> MimeTypeMap[image.suffix]])

\* the text put in place of an address that could not be resolved
AddressUnavailable == <<"lookup failed (see latitude/longitude)">>

\* an address line left empty when nothing was resolved
FormatAddress_Blank(address) ==
    IF address = Null THEN <<>>
    ELSE SelectSeq(<<Val(address).prefecture, Val(address).municipality>>,
                   LAMBDA part : part # Null /\ part # Some(""))

\* _format_address: the parts of the address that are present, or the marker
FormatAddress(address) ==
    IF address = Null THEN AddressUnavailable
    ELSE LET parts == SelectSeq(<<Val(address).prefecture,
                                  Val(address).municipality>>,
                                LAMBDA part : part # Null /\ part # Some(""))
         IN IF parts = <<>> THEN AddressUnavailable ELSE parts

\* _build_email_body for an alert with a sighting: the lines that depend on
\* the address lookup and on the image
BuildEmailBody(alert, image_url, has_attachment) ==
    [level |-> alert.alert_level,
     address |-> FormatAddress(alert.address),
     position |-> alert.sighting,
     map |-> alert.sighting,
     image |-> IF has_attachment THEN "attached"
               ELSE IF image_url # Null THEN "url" ELSE "none"]

\* lines 231-235: subject, attachment, image_url, body, attachments
ComposeMessage(alert) ==
    LET attachment == BuildImageAttachment(alert.image)
        image_url == IF alert.image.has_path THEN Some("url") ELSE Null
    IN [subject |-> alert.alert_level,
        body |-> BuildEmailBody(alert, image_url, attachment # Null),
        attachments |-> IF attachment # Null THEN <<Val(attachment)>> ELSE <<>>]

\* lines 230-235: subject, attachment and body are built once, before the loop
Compose(i) ==
    /\ pc[i] = "compose"
    /\ pc' = [pc EXCEPT ![i] = "loop"]
    /\ idx' = [idx EXCEPT ![i] = 1]
    /\ did' = [did EXCEPT ![i] = @ \cup {"compose"}]
    /\ message' = [message EXCEPT ![i] = Some(ComposeMessage(Alert(i)))]
    /\ UNCHANGED <<alerts, run, geo, stream, sync, users, now, history, ledger, locks, sendlog, alert_id, stats, recipients,
                   existing_user_ids, exc>>

\* a recipient passed over without being counted
CountAlreadyNotified_Uncounted(st) == st

\* lines 238-240: stats["skipped"] += 1; continue
CountAlreadyNotified(st) == [st EXCEPT !.skipped = @ + 1]

\* lines 237-244: the next recipient is skipped or claimed
Claim(i) ==
    /\ pc[i] = "loop"
    /\ idx[i] <= Len(recipients[i])
    /\ IF AlreadyNotified(i, User(i))
       THEN /\ stats' = [stats EXCEPT ![i] = CountAlreadyNotified(@)]
            /\ idx' = [idx EXCEPT ![i] = @ + 1]
            /\ UNCHANGED <<pc, locks, did>>
       ELSE IF ~TryLockNotificationSlot(i, Alert(i).id, User(i))
       THEN /\ stats' = [stats EXCEPT ![i].skipped = @ + 1]
            /\ idx' = [idx EXCEPT ![i] = @ + 1]
            /\ did' = [did EXCEPT ![i] = @ \cup {"trylock"}]
            /\ UNCHANGED <<pc, locks>>
       ELSE /\ locks' = LocksWith(i, Alert(i).id, User(i))
            /\ pc' = [pc EXCEPT ![i] = "send"]
            /\ did' = [did EXCEPT ![i] = @ \cup {"trylock"}]
            /\ UNCHANGED <<stats, idx>>
    /\ UNCHANGED <<shared, history, ledger, sendlog, alert_id, recipients,
                   existing_user_ids, exc>>

\* line 247: send_email returns
SendReturns(i) ==
    /\ pc[i] = "send"
    /\ sendlog' = sendlog \cup {[inv |-> i, alert_id |-> Alert(i).id,
                                 user_id |-> User(i), ok |-> TRUE,
                                 message |-> Val(message[i])]}
    /\ pc' = [pc EXCEPT ![i] = "commit_sent"]
    /\ UNCHANGED <<shared, history, ledger, locks, alert_id, stats, recipients, idx,
                   existing_user_ids, exc, did>>

\* line 247: send_email raises; line 259 catches it
SendRaises(i) ==
    /\ pc[i] = "send"
    /\ \E len \in ErrorTextLengths :
          exc' = [exc EXCEPT ![i] = Some([type |-> "transport", len |-> len])]
    /\ sendlog' = sendlog \cup {[inv |-> i, alert_id |-> Alert(i).id,
                                 user_id |-> User(i), ok |-> FALSE,
                                 message |-> Val(message[i])]}
    /\ pc' = [pc EXCEPT ![i] = AfterSendRaises]
    /\ UNCHANGED <<shared, history, ledger, locks, alert_id, stats, recipients, idx,
                   existing_user_ids, did>>

\* lines 248-258: the 'sent' row is added and committed
CommitSent(i) ==
    /\ pc[i] = "commit_sent"
    /\ IF UniqueViolation(Alert(i).id, User(i), "email")
       THEN \* the flush raises IntegrityError and ends the transaction
            /\ exc' = [exc EXCEPT ![i] =
                          Some([type |-> "IntegrityError", len |-> 7])]
            /\ locks' = LocksReleased(i)
            /\ pc' = [pc EXCEPT ![i] = "rollback"]
            /\ UNCHANGED <<ledger, stats, idx, existing_user_ids>>
       ELSE /\ ledger' = ledger \cup {SentRow(i, Alert(i).id, User(i))}
            /\ locks' = LocksReleased(i)
            /\ stats' = [stats EXCEPT ![i].sent = @ + 1]
            /\ existing_user_ids' =
                  [existing_user_ids EXCEPT ![i] = @ \cup {User(i)}]
            /\ idx' = [idx EXCEPT ![i] = @ + 1]
            /\ pc' = [pc EXCEPT ![i] = "loop"]
            /\ UNCHANGED exc
    /\ did' = [did EXCEPT ![i] = @ \cup {"write"}]
    /\ UNCHANGED <<shared, history, sendlog, alert_id, recipients>>

\* line 260: db.rollback() in the except clause
Rollback(i) ==
    /\ pc[i] = "rollback"
    /\ locks' = LocksReleased(i)
    /\ pc' = [pc EXCEPT ![i] = "commit_failed"]
    /\ UNCHANGED <<shared, history, ledger, sendlog, alert_id, stats, recipients, idx,
                   existing_user_ids, exc, did>>

\* lines 266-280: the 'failed' row is added and committed
CommitFailed(i) ==
    /\ pc[i] = "commit_failed"
    /\ IF UniqueViolation(Alert(i).id, User(i), "email")
       THEN /\ stats' = [stats EXCEPT ![i] = CountLedgerConflict(@)]
            /\ ledger' = LedgerAfterConflict(i, Alert(i).id, User(i),
                                             Val(exc[i]).len)
       ELSE /\ ledger' = ledger \cup
                  {FailedRow(i, Alert(i).id, User(i), Val(exc[i]).len)}
            /\ stats' = [stats EXCEPT ![i].failed = @ + 1]
    /\ locks' = LocksReleased(i)
    /\ exc' = [exc EXCEPT ![i] = Null]
    /\ idx' = [idx EXCEPT ![i] = @ + 1]
    /\ pc' = [pc EXCEPT ![i] = "loop"]
    /\ did' = [did EXCEPT ![i] = @ \cup {"write"}]
    /\ UNCHANGED <<shared, history, sendlog, alert_id, recipients, existing_user_ids>>

\* line 282: the loop is over, stats is returned
Return(i) ==
    /\ pc[i] = "loop"
    /\ idx[i] > Len(recipients[i])
    /\ pc' = [pc EXCEPT ![i] = "done"]
    /\ UNCHANGED <<shared, history, ledger, locks, sendlog, alert_id, stats, recipients,
                   idx, existing_user_ids, exc, did>>

Next ==
    \E i \in Invocations :
        \/ \E a \in AlertIds : Call(i, a)
        \/ LoadAlert(i)
        \/ LoadAlertRaises(i)
        \/ SelectRecipients(i)
        \/ SelectRecipientsRaises(i)
        \/ ReadExisting(i)
        \/ Compose(i)
        \/ Claim(i)
        \/ SendReturns(i)
        \/ SendRaises(i)
        \/ CommitSent(i)
        \/ Rollback(i)
        \/ CommitFailed(i)
        \/ Return(i)

Spec == Init /\ [][Next]_vars

\* the steps of invocation i once it has been called: the thread that runs
\* notify_for_alert keeps running until the function returns or raises
Proceed(i) ==
    \/ LoadAlert(i)
    \/ LoadAlertRaises(i)
    \/ SelectRecipients(i)
    \/ SelectRecipientsRaises(i)
    \/ ReadExisting(i)
    \/ Compose(i)
    \/ Claim(i)
    \/ SendReturns(i)
    \/ SendRaises(i)
    \/ CommitSent(i)
    \/ Rollback(i)
    \/ CommitFailed(i)
    \/ Return(i)

\* the notifier under fair scheduling: a called invocation that can take a
\* step eventually takes one
SpecFair == Init /\ [][Next]_vars /\ \A i \in Invocations : WF_vars(Proceed(i))

\* the same program started from users tables that exercise every condition
\* of the recipient query
InitSel ==
    /\ alerts = AlertTable
    /\ run = NoRun
    /\ geo = NoGeo
    /\ users \in [Users -> SelectionProfiles]
    /\ now = NOTIFY_STALE_MINUTES + 1
    /\ stream = NoStream
    /\ sync = NoSync
    /\ message = [i \in Invocations |-> Null]
    /\ ledger = {}
    /\ locks = {}
    /\ sendlog = {}
    /\ pc = [i \in Invocations |-> "idle"]
    /\ alert_id = [i \in Invocations |-> 0]
    /\ stats = [i \in Invocations |-> NewStats]
    /\ recipients = [i \in Invocations |-> <<>>]
    /\ idx = [i \in Invocations |-> 0]
    /\ existing_user_ids = [i \in Invocations |-> {}]
    /\ exc = [i \in Invocations |-> Null]
    /\ did = [i \in Invocations |-> {}]
    /\ prior = [i \in Invocations |-> {}]
    /\ snapshot = [i \in Invocations |-> {}]

SpecSel == InitSel /\ [][Next]_vars

\* the same program started with one alert whose image file and address
\* lookup exercise every branch of the message composition
InitCompose ==
    /\ alerts \in {[a \in {1} |->
                      [id |-> a, alert_level |-> "critical", sighting |-> Some(0),
                       image |-> image, address |-> address]] :
                    image \in ImageFiles, address \in GeocodeReturns}
    /\ run = NoRun
    /\ geo = NoGeo
    /\ users = [u \in Users |-> NearbyUser]
    /\ now = NOTIFY_STALE_MINUTES + 1
    /\ stream = NoStream
    /\ sync = NoSync
    /\ message = [i \in Invocations |-> Null]
    /\ ledger = {}
    /\ locks = {}
    /\ sendlog = {}
    /\ pc = [i \in Invocations |-> "idle"]
    /\ alert_id = [i \in Invocations |-> 0]
    /\ stats = [i \in Invocations |-> NewStats]
    /\ recipients = [i \in Invocations |-> <<>>]
    /\ idx = [i \in Invocations |-> 0]
    /\ existing_user_ids = [i \in Invocations |-> {}]
    /\ exc = [i \in Invocations |-> Null]
    /\ did = [i \in Invocations |-> {}]
    /\ prior = [i \in Invocations |-> {}]
    /\ snapshot = [i \in Invocations |-> {}]

SpecCompose == InitCompose /\ [][Next]_vars

(* ---------------------------------------------------- geocoding_service *)
\* round(x, 6) of a coordinate given in units of 1e-7 degree
Round6(x) == ((x + 5) \div 10) * 10

\* _cache_key
CacheKey(point) == <<Round6(point[1]), Round6(point[2])>>

\* the keys of _cache, a dict: entries in insertion order
CachedKeys == {geo.cache[k].key : k \in 1..Len(geo.cache)}
Cached(key) ==
    (CHOOSE e \in {geo.cache[k] : k \in 1..Len(geo.cache)} : e.key = key).result

\* _cache[key] = result, for a key that is not in the dict
CacheAfterInsert(cache, key, result) ==
    Append(cache, [key |-> key, result |-> result])

\* a failure remembered as "no address"
CacheAfterFailure_Negative(cache, key) ==
    Append(cache, [key |-> key, result |-> [prefecture |-> Null,
                                            municipality |-> Null]])

\* except Exception: nothing is stored
CacheAfterFailure(cache, key) == cache

\* a failure that leaves reverse_geocode as an exception
LookupFailureOutcome_Propagates == "raised"

\* except Exception: logger.exception(...); return None
LookupFailureOutcome == "returned"

\* settings.GEOCODING_ENABLED is false: None, nothing else happens
GeoDisabled(point) ==
    /\ geo.calls < MaxGeoCalls
    /\ ~geo.enabled
    /\ geo' = [geo EXCEPT !.calls = @ + 1, !.last = Null,
                          !.point = Some(point), !.outcome = "returned"]
    /\ UNCHANGED <<alerts, run, stream, sync, users, now, message, ledger, locks, sendlog, pc,
                   alert_id, stats, recipients, idx, existing_user_ids, exc,
                   did, history>>

\* the key is in _cache: the stored result, no outbound request
GeoCacheHit(point) ==
    /\ geo.calls < MaxGeoCalls
    /\ geo.enabled
    /\ CacheKey(point) \in CachedKeys
    /\ geo' = [geo EXCEPT !.calls = @ + 1,
                          !.last = Some(Cached(CacheKey(point))),
                          !.point = Some(point), !.outcome = "returned"]
    /\ UNCHANGED <<alerts, run, stream, sync, users, now, message, ledger, locks, sendlog, pc,
                   alert_id, stats, recipients, idx, existing_user_ids, exc,
                   did, history>>

\* the key is not in _cache and the request succeeds: the result is stored
\* and returned
GeoLookupSucceeds(point, result) ==
    /\ geo.calls < MaxGeoCalls
    /\ geo.enabled
    /\ CacheKey(point) \notin CachedKeys
    /\ geo' = [geo EXCEPT !.calls = @ + 1, !.outbound = @ + 1,
                          !.cache = CacheAfterInsert(@, CacheKey(point), result),
                          !.last = Some(result),
                          !.point = Some(point), !.outcome = "returned"]
    /\ UNCHANGED <<alerts, run, stream, sync, users, now, message, ledger, locks, sendlog, pc,
                   alert_id, stats, recipients, idx, existing_user_ids, exc,
                   did, history>>

\* the key is not in _cache and the request raises: None, nothing stored
GeoLookupFails(point) ==
    /\ geo.calls < MaxGeoCalls
    /\ geo.enabled
    /\ CacheKey(point) \notin CachedKeys
    /\ geo' = [geo EXCEPT !.calls = @ + 1, !.outbound = @ + 1, !.last = Null,
                          !.cache = CacheAfterFailure(@, CacheKey(point)),
                          !.point = Some(point),
                          !.outcome = LookupFailureOutcome,
                          !.failed_keys = @ \cup {CacheKey(point)}]
    /\ UNCHANGED <<alerts, run, stream, sync, users, now, message, ledger, locks, sendlog, pc,
                   alert_id, stats, recipients, idx, existing_user_ids, exc,
                   did, history>>

InitGeo ==
    /\ alerts = AlertTable
    /\ run = NoRun
    /\ geo \in {[NoGeo EXCEPT !.enabled = e] : e \in BOOLEAN}
    /\ users = [u \in Users |-> NearbyUser]
    /\ now = NOTIFY_STALE_MINUTES + 1
    /\ stream = NoStream
    /\ sync = NoSync
    /\ message = [i \in Invocations |-> Null]
    /\ ledger = {}
    /\ locks = {}
    /\ sendlog = {}
    /\ pc = [i \in Invocations |-> "idle"]
    /\ alert_id = [i \in Invocations |-> 0]
    /\ stats = [i \in Invocations |-> NewStats]
    /\ recipients = [i \in Invocations |-> <<>>]
    /\ idx = [i \in Invocations |-> 0]
    /\ existing_user_ids = [i \in Invocations |-> {}]
    /\ exc = [i \in Invocations |-> Null]
    /\ did = [i \in Invocations |-> {}]
    /\ prior = [i \in Invocations |-> {}]
    /\ snapshot = [i \in Invocations |-> {}]

NextGeo ==
    \E point \in GeoPoints :
        \/ GeoDisabled(point)
        \/ GeoCacheHit(point)
        \/ \E result \in AddressResults : GeoLookupSucceeds(point, result)
        \/ GeoLookupFails(point)

SpecGeo == InitGeo /\ [][NextGeo]_vars

(* ------------------------------------------------- processing pipelines *)
\* One run handles its frames one after the other.  For an upload that is
\* the for loop over the frame iterator; for a stream session each frame is
\* one upload_stream_frame request, an async handler that runs from
\* mark_frame_received to its return without awaiting, so the event loop
\* finishes one frame of a session before it starts the next.
\* notify_for_alert is reduced to its two outcomes, return and raise.

\* a dispatch decision that forgets earlier dispatches
ShouldDispatch_IgnoresFlag(notification_dispatched, alert_level) ==
    alert_level \in NOTIFIABLE_ALERT_LEVELS

\* if not notification_dispatched and alert_level in NOTIFIABLE_ALERT_LEVELS
ShouldDispatch(notification_dispatched, alert_level) ==
    /\ ~notification_dispatched
    /\ alert_level \in NOTIFIABLE_ALERT_LEVELS

\* the flag after notify_for_alert returned
FlagAfterNotifyReturns(kind, notification_dispatched) == TRUE

\* the flag after notify_for_alert raised: the usecases set it inside the
\* try, after the call; api/uploads.py sets it after the try statement
FlagAfterNotifyRaises(kind, notification_dispatched) ==
    IF kind = "api" THEN TRUE ELSE notification_dispatched

\* an exception in the frame loop is caught by the pipeline's except clause;
\* in a stream session it fails one frame request and the session goes on
AfterSaveRaises(kind) == IF kind = "stream" THEN "next" ELSE "except"

\* what a run on a missing upload row hands back: execute_upload_processing
\* returns status "failed", process_upload returns None, process_stream_frame
\* raises ValueError
MissingUploadResult(kind) ==
    CASE kind = "upload" -> "failed"
      [] kind = "api" -> "none"
      [] OTHER -> "raised"

\* an except clause that gives up when its own write fails
AfterMarkFailedRaises_Propagates(kind) == "raised"

\* the write of the 'failed' status raises: _mark_upload_failed rolls back
\* and logs, the except clause of process_upload lets the exception out
AfterMarkFailedRaises(kind) == IF kind = "upload" THEN "failed" ELSE "raised"

\* error_message[:2000] in _mark_upload_failed, str(e) in process_upload
StoredErrorLength(kind, len) ==
    IF kind = "upload" THEN TruncatedLength(len) ELSE len

\* stop_stream_session keeps a 'failed' upload failed
FinalStatus(kind, status) ==
    IF kind = "stream" /\ status = "failed" THEN status ELSE "completed"

\* serial primary key of the next alert row
NextAlertId == Cardinality(DOMAIN alerts) + 1

\* the upload row is found: status 'processing' is committed
BeginRun ==
    /\ run.pc = "start"
    /\ run.status # "missing"
    /\ run' = [run EXCEPT !.status = "processing", !.error_len = Null,
                          !.pc = IF run.kind = "upload" THEN "setup" ELSE "next"]
    /\ UNCHANGED <<alerts, geo, stream, sync, users, now, message, ledger, locks, sendlog, pc, alert_id,
                   stats, recipients, idx, existing_user_ids, exc, did, history>>

\* the upload row is not found: the run ends without touching anything
BeginMissing ==
    /\ run.pc = "start"
    /\ run.status = "missing"
    /\ run' = [run EXCEPT !.result = Some(MissingUploadResult(run.kind)),
                          !.pc = "failed"]
    /\ UNCHANGED <<alerts, geo, stream, sync, users, now, message, ledger, locks, sendlog, pc, alert_id,
                   stats, recipients, idx, existing_user_ids, exc, did, history>>

\* execute_upload_processing lines 38-44: services and location resolved
SetupDone ==
    /\ run.pc = "setup"
    /\ run' = [run EXCEPT !.pc = "next"]
    /\ UNCHANGED <<alerts, geo, stream, sync, users, now, message, ledger, locks, sendlog, pc, alert_id,
                   stats, recipients, idx, existing_user_ids, exc, did, history>>

\* the camera query of _resolve_location raises: line 40 is outside the try
\* statement, the exception leaves execute_upload_processing
SetupRaises ==
    /\ run.pc = "setup"
    /\ run' = [run EXCEPT !.result = Some("raised"), !.pc = "raised"]
    /\ UNCHANGED <<alerts, geo, stream, sync, users, now, message, ledger, locks, sendlog, pc, alert_id,
                   stats, recipients, idx, existing_user_ids, exc, did, history>>

\* detection_service.detect returns no detections
DetectNothing ==
    /\ run.pc = "next"
    /\ run.frames < MaxFrames
    /\ run' = [run EXCEPT !.frames = @ + 1]
    /\ UNCHANGED <<alerts, geo, stream, sync, users, now, message, ledger, locks, sendlog, pc, alert_id,
                   stats, recipients, idx, existing_user_ids, exc, did, history>>

\* detection_service.detect returns detections of the given level
DetectBear(level) ==
    /\ run.pc = "next"
    /\ run.frames < MaxFrames
    /\ run' = [run EXCEPT !.frames = @ + 1, !.alert_level = Some(level),
                          !.alert_id = Null, !.pc = "detected"]
    /\ UNCHANGED <<alerts, geo, stream, sync, users, now, message, ledger, locks, sendlog, pc, alert_id,
                   stats, recipients, idx, existing_user_ids, exc, did, history>>

\* the frame iterator or detection_service.detect raises
FrameRaises ==
    /\ run.pc = "next"
    /\ run.frames < MaxFrames
    /\ run' = [run EXCEPT !.frames = @ + 1, !.pc = AfterSaveRaises(run.kind)]
    /\ UNCHANGED <<alerts, geo, stream, sync, users, now, message, ledger, locks, sendlog, pc, alert_id,
                   stats, recipients, idx, existing_user_ids, exc, did, history>>

\* the sighting and the alert are saved and committed, then the dispatch
\* condition is evaluated and notify_for_alert called if it holds
SaveDetection ==
    /\ run.pc = "detected"
    /\ LET id == NextAlertId
           level == Val(run.alert_level)
           row == [id |-> id, alert_level |-> level, sighting |-> Some(0),
                   image |-> OkImage, address |-> Some(FullAddress)]
       IN /\ alerts' = [a \in 1..id |-> IF a = id THEN row ELSE alerts[a]]
          /\ IF ShouldDispatch(run.notification_dispatched, level)
             THEN run' = [run EXCEPT !.alert_id = Some(id), !.pc = "notify",
                                     !.calls = Append(@, id)]
             ELSE run' = [run EXCEPT !.alert_id = Some(id), !.pc = "next"]
    /\ UNCHANGED <<geo, stream, sync, users, now, message, ledger, locks, sendlog, pc, alert_id,
                   stats, recipients, idx, existing_user_ids, exc, did, history>>

\* the save or its commit raises: nothing of the frame is stored
SaveRaises ==
    /\ run.pc = "detected"
    /\ run' = [run EXCEPT !.pc = AfterSaveRaises(run.kind)]
    /\ UNCHANGED <<alerts, geo, stream, sync, users, now, message, ledger, locks, sendlog, pc, alert_id,
                   stats, recipients, idx, existing_user_ids, exc, did, history>>

\* notify_for_alert returns its stats
NotifyReturns ==
    /\ run.pc = "notify"
    /\ run' = [run EXCEPT
                  !.returned = @ \cup run.alert_id,
                  !.notification_dispatched =
                      FlagAfterNotifyReturns(run.kind, @),
                  !.pc = "next"]
    /\ UNCHANGED <<alerts, geo, stream, sync, users, now, message, ledger, locks, sendlog, pc, alert_id,
                   stats, recipients, idx, existing_user_ids, exc, did, history>>

\* notify_for_alert raises; the pipeline logs it and goes on
NotifyRaises ==
    /\ run.pc = "notify"
    /\ run' = [run EXCEPT
                  !.raised = @ \cup run.alert_id,
                  !.notification_dispatched =
                      FlagAfterNotifyRaises(run.kind, @),
                  !.pc = "next"]
    /\ UNCHANGED <<alerts, geo, stream, sync, users, now, message, ledger, locks, sendlog, pc, alert_id,
                   stats, recipients, idx, existing_user_ids, exc, did, history>>

\* the frame iterator is exhausted and 'completed' is committed, or the
\* stream session is stopped
Finish ==
    /\ run.pc = "next"
    /\ run' = [run EXCEPT !.status = FinalStatus(run.kind, @),
                          !.result = Some("completed"),
                          !.pc = "finished"]
    /\ UNCHANGED <<alerts, geo, stream, sync, users, now, message, ledger, locks, sendlog, pc, alert_id,
                   stats, recipients, idx, existing_user_ids, exc, did, history>>

\* the commit of 'completed' raises inside the try statement
FinishRaises ==
    /\ run.pc = "next"
    /\ run.kind # "stream"
    /\ run' = [run EXCEPT !.pc = "except"]
    /\ UNCHANGED <<alerts, geo, stream, sync, users, now, message, ledger, locks, sendlog, pc, alert_id,
                   stats, recipients, idx, existing_user_ids, exc, did, history>>

\* except Exception: rollback, then the upload row is marked 'failed' with
\* the text of the exception
MarkFailed ==
    /\ run.pc = "except"
    /\ \E len \in ErrorTextLengths :
          run' = [run EXCEPT
                     !.status = "failed",
                     !.error_len = Some(StoredErrorLength(run.kind, len)),
                     !.result = IF run.kind = "upload" THEN Some("failed")
                                ELSE Some("none"),
                     !.pc = "failed"]
    /\ UNCHANGED <<alerts, geo, stream, sync, users, now, message, ledger, locks, sendlog, pc, alert_id,
                   stats, recipients, idx, existing_user_ids, exc, did, history>>

\* the query or the commit that marks the upload 'failed' raises as well
MarkFailedRaises ==
    /\ run.pc = "except"
    /\ run' = [run EXCEPT
                  !.result = IF AfterMarkFailedRaises(run.kind) = "raised"
                             THEN Some("raised") ELSE Some("failed"),
                  !.pc = AfterMarkFailedRaises(run.kind)]
    /\ UNCHANGED <<alerts, geo, stream, sync, users, now, message, ledger, locks, sendlog, pc, alert_id,
                   stats, recipients, idx, existing_user_ids, exc, did, history>>

InitPipeline ==
    /\ alerts = AlertTable
    /\ run \in {[NewRun(kind) EXCEPT !.status = st] :
                   kind \in PipelineKinds, st \in {"pending", "missing"}}
    /\ geo = NoGeo
    /\ users = [u \in Users |-> NearbyUser]
    /\ now = NOTIFY_STALE_MINUTES + 1
    /\ stream = NoStream
    /\ sync = NoSync
    /\ message = [i \in Invocations |-> Null]
    /\ ledger = {}
    /\ locks = {}
    /\ sendlog = {}
    /\ pc = [i \in Invocations |-> "idle"]
    /\ alert_id = [i \in Invocations |-> 0]
    /\ stats = [i \in Invocations |-> NewStats]
    /\ recipients = [i \in Invocations |-> <<>>]
    /\ idx = [i \in Invocations |-> 0]
    /\ existing_user_ids = [i \in Invocations |-> {}]
    /\ exc = [i \in Invocations |-> Null]
    /\ did = [i \in Invocations |-> {}]
    /\ prior = [i \in Invocations |-> {}]
    /\ snapshot = [i \in Invocations |-> {}]

NextPipeline ==
    \/ BeginRun
    \/ BeginMissing
    \/ SetupDone
    \/ SetupRaises
    \/ DetectNothing
    \/ \E level \in AlertLevels : DetectBear(level)
    \/ FrameRaises
    \/ SaveDetection
    \/ SaveRaises
    \/ NotifyReturns
    \/ NotifyRaises
    \/ Finish
    \/ FinishRaises
    \/ MarkFailed
    \/ MarkFailedRaises

SpecPipeline == InitPipeline /\ [][NextPipeline]_vars

(* --------------------------------------------------------- stream session *)
\* One session of stream_session_manager with its upload row, NumFrameRequests
\* frame requests (upload_stream_frame) and one stop request
\* (stop_stream_session). upload_stream_frame is a coroutine that awaits
\* frame_file.read() between its status check and mark_frame_received;
\* stop_stream_session is a plain function served by a worker thread. The
\* manager's lock covers one method call at a time.

notifier ==
    <<ledger, locks, sendlog, pc, alert_id, stats, recipients, idx,
      existing_user_ids, exc, did, prior, snapshot>>

\* len(detections) of one frame
DetectionCounts == 0..MaxDetections

\* mark_frame_received: if session.status == "reconnecting": "active"
StatusAfterFrame(status) == IF status = "reconnecting" THEN "active" ELSE status

\* streams.py lines 120-130: the session is fetched and its status checked
FrameArrives(r) ==
    /\ stream.req[r] = "idle"
    /\ stream' = [stream EXCEPT
                     !.req[r] = IF stream.status = "stopped" THEN "rejected"
                                ELSE "accepted"]
    /\ UNCHANGED <<alerts, run, geo, sync, users, now, message, notifier>>

\* lines 132-153: wrong content type, frame too large or not an image
FrameInvalid(r) ==
    /\ stream.req[r] = "accepted"
    /\ stream' = [stream EXCEPT !.req[r] = "invalid"]
    /\ UNCHANGED <<alerts, run, geo, sync, users, now, message, notifier>>

\* lines 139-155: the body has been read and decoded, mark_frame_received
FrameReceived(r) ==
    /\ stream.req[r] = "accepted"
    /\ stream' = [stream EXCEPT
                     !.frames_received = @ + 1,
                     !.status = StatusAfterFrame(@),
                     !.req[r] = "received"]
    /\ UNCHANGED <<alerts, run, geo, sync, users, now, message, notifier>>

\* process_stream_frame: the upload row is set to 'processing', a frame
\* with detections gets its sighting and alert, and the session commits
FrameProcessed(r) ==
    /\ stream.req[r] = "received"
    /\ \E n \in DetectionCounts :
          stream' = [stream EXCEPT
                        !.upload = "processing",
                        !.sightings = IF n > 0 THEN @ + 1 ELSE @,
                        !.found[r] = n,
                        !.req[r] = "processed"]
    /\ UNCHANGED <<alerts, run, geo, sync, users, now, message, notifier>>

\* process_stream_frame raises before its commit: the request fails
FrameProcessRaises(r) ==
    /\ stream.req[r] = "received"
    /\ stream' = [stream EXCEPT !.req[r] = "error"]
    /\ UNCHANGED <<alerts, run, geo, sync, users, now, message, notifier>>

\* line 163: mark_frame_processed, then the acknowledgement is returned
FrameAcked(r) ==
    /\ stream.req[r] = "processed"
    /\ stream' = [stream EXCEPT
                     !.frames_processed = @ + 1,
                     !.detections_count = @ + stream.found[r],
                     !.req[r] = "acked"]
    /\ UNCHANGED <<alerts, run, geo, sync, users, now, message, notifier>>

\* mark_reconnecting: a stopped session is left as it is
MarkReconnecting ==
    /\ stream.reconnect_attempts < MaxReconnects
    /\ stream.status # "stopped"
    /\ stream' = [stream EXCEPT !.status = "reconnecting",
                                !.reconnect_attempts = @ + 1]
    /\ UNCHANGED <<alerts, run, geo, sync, users, now, message, notifier>>

\* stop_stream_session line 197: stop_session sets status 'stopped'
StopSession ==
    /\ stream.stop = "idle"
    /\ stream' = [stream EXCEPT !.status = "stopped", !.stop = "stopping"]
    /\ UNCHANGED <<alerts, run, geo, sync, users, now, message, notifier>>

\* lines 204-214: the upload row is finalized and the response returned
StopReturns ==
    /\ stream.stop = "stopping"
    /\ stream' = [stream EXCEPT !.upload = FinalStatus("stream", @),
                                !.stop = "returned"]
    /\ UNCHANGED <<alerts, run, geo, sync, users, now, message, notifier>>

InitStream ==
    /\ alerts = AlertTable
    /\ run = NoRun
    /\ geo = NoGeo
    /\ stream = NewStream
    /\ sync = NoSync
    /\ users = [u \in Users |-> NearbyUser]
    /\ now = NOTIFY_STALE_MINUTES + 1
    /\ message = [i \in Invocations |-> Null]
    /\ ledger = {}
    /\ locks = {}
    /\ sendlog = {}
    /\ pc = [i \in Invocations |-> "idle"]
    /\ alert_id = [i \in Invocations |-> 0]
    /\ stats = [i \in Invocations |-> NewStats]
    /\ recipients = [i \in Invocations |-> <<>>]
    /\ idx = [i \in Invocations |-> 0]
    /\ existing_user_ids = [i \in Invocations |-> {}]
    /\ exc = [i \in Invocations |-> Null]
    /\ did = [i \in Invocations |-> {}]
    /\ prior = [i \in Invocations |-> {}]
    /\ snapshot = [i \in Invocations |-> {}]

NextStream ==
    \/ \E r \in FrameRequests :
          \/ FrameArrives(r)
          \/ FrameInvalid(r)
          \/ FrameReceived(r)
          \/ FrameProcessed(r)
          \/ FrameProcessRaises(r)
          \/ FrameAcked(r)
    \/ MarkReconnecting
    \/ StopSession
    \/ StopReturns

SpecStream == InitStream /\ [][NextStream]_vars

(* --------------------------------------------------------------- user sync *)
\* NumSyncCalls calls of sync_user_from_firebase whose tokens carry the same
\* Firebase uid, each in a database session of its own. sync.rows are the
\* users rows with that uid; the row a call inserts gets the call's number
\* as id, a row that was there before has id 0.

\* current_user.email (and name) of the token of call c
TokenEmail(c) == c

\* db.query(User).filter(User.firebase_uid == current_user.uid).first()
UserByUid == sync.rows

\* the unique index on users.firebase_uid: a second row for the uid is refused
UidUniqueViolation(rows) == rows # {}

\* db_user.email = current_user.email; db_user.name = current_user.name
RowsUpdated(rows, c) == {[r EXCEPT !.email = TokenEmail(c)] : r \in rows}

\* an IntegrityError that is handed on to the caller
AfterIntegrityError_Raises(found) == "raised"

\* lines 62-64: the existing row is fetched again; raise only if it is gone
AfterIntegrityError(found) == IF found THEN "existing" ELSE "raised"

\* line 39: the row of the uid is looked up
SyncQuery(c) ==
    /\ sync.pc[c] = "idle"
    /\ sync' = [sync EXCEPT !.pc[c] = IF UserByUid # {} THEN "update"
                                      ELSE "insert"]
    /\ UNCHANGED <<alerts, run, geo, stream, users, now, message, notifier>>

\* lines 41-46: the row was found, its email and name are updated
SyncUpdate(c) ==
    /\ sync.pc[c] = "update"
    /\ sync' = [sync EXCEPT !.rows = RowsUpdated(@, c),
                            !.created[c] = Some(FALSE),
                            !.pc[c] = "returned"]
    /\ UNCHANGED <<alerts, run, geo, stream, users, now, message, notifier>>

\* lines 48-59: the row was not found; db.add and db.commit either store
\* the new row or raise IntegrityError
SyncInsert(c) ==
    /\ sync.pc[c] = "insert"
    /\ IF UidUniqueViolation(sync.rows)
       THEN sync' = [sync EXCEPT !.lost[c] = TRUE, !.pc[c] = "conflict"]
       ELSE sync' = [sync EXCEPT
                        !.rows = @ \cup {[id |-> c, email |-> TokenEmail(c)]},
                        !.created[c] = Some(TRUE),
                        !.pc[c] = "returned"]
    /\ UNCHANGED <<alerts, run, geo, stream, users, now, message, notifier>>

\* lines 61-64: rollback, then the row of the uid is looked up again
SyncRollback(c) ==
    /\ sync.pc[c] = "conflict"
    /\ sync' = [sync EXCEPT !.pc[c] = AfterIntegrityError(UserByUid # {})]
    /\ UNCHANGED <<alerts, run, geo, stream, users, now, message, notifier>>

\* lines 66-70: the existing row is updated and returned
SyncUpdateExisting(c) ==
    /\ sync.pc[c] = "existing"
    /\ sync' = [sync EXCEPT !.rows = RowsUpdated(@, c),
                            !.created[c] = Some(FALSE),
                            !.pc[c] = "returned"]
    /\ UNCHANGED <<alerts, run, geo, stream, users, now, message, notifier>>

\* a first login (no row for the uid) or a user synced before
InitSync ==
    /\ alerts = AlertTable
    /\ run = NoRun
    /\ geo = NoGeo
    /\ stream = NoStream
    /\ sync \in {[NoSync EXCEPT !.rows = rows] :
                    rows \in {{}, {[id |-> 0, email |-> 0]}}}
    /\ users = [u \in Users |-> NearbyUser]
    /\ now = NOTIFY_STALE_MINUTES + 1
    /\ message = [i \in Invocations |-> Null]
    /\ ledger = {}
    /\ locks = {}
    /\ sendlog = {}
    /\ pc = [i \in Invocations |-> "idle"]
    /\ alert_id = [i \in Invocations |-> 0]
    /\ stats = [i \in Invocations |-> NewStats]
    /\ recipients = [i \in Invocations |-> <<>>]
    /\ idx = [i \in Invocations |-> 0]
    /\ existing_user_ids = [i \in Invocations |-> {}]
    /\ exc = [i \in Invocations |-> Null]
    /\ did = [i \in Invocations |-> {}]
    /\ prior = [i \in Invocations |-> {}]
    /\ snapshot = [i \in Invocations |-> {}]

NextSync ==
    \E c \in SyncCalls :
        \/ SyncQuery(c)
        \/ SyncUpdate(c)
        \/ SyncInsert(c)
        \/ SyncRollback(c)
        \/ SyncUpdateExisting(c)

SpecSync == InitSync /\ [][NextSync]_vars

TypeOK ==
    /\ pc \in [Invocations -> {"idle", "load", "select", "existing", "compose",
                               "loop", "send", "commit_sent", "rollback",
                               "commit_failed", "done", "raised"}]
    /\ \A i \in Invocations : stats[i].sent + stats[i].failed + stats[i].skipped
                                 <= stats[i].targets

(* ------------------------------------------------------------ properties *)
RowsFor(a, u) ==
    {r \in ledger : r.alert_id = a /\ r.user_id = u /\ r.channel = "email"}
RowsBy(i) == {r \in ledger : r.by = i}
SendsBy(i) == {s \in sendlog : s.inv = i}
DeliveredBy(a, u) ==
    {s.inv : s \in {t \in sendlog : t.alert_id = a /\ t.user_id = u /\ t.ok}}
Others(i) == Invocations \ {i}
Returned(i) == pc[i] = "done"
Alone(i) == \A k \in Others(i) : pc[k] = "idle"
StepOf(i) ==
    pc'[i] # pc[i] \/ idx'[i] # idx[i] \/ stats'[i] # stats[i] \/ did'[i] # did[i]

\* C1: for every alert and user the ledger holds at most one row with
\* channel 'email' and status 'sent', whatever invocations have run.
C1_AtMostOneSentRow ==
    \A a \in AlertIds, u \in Users :
        Cardinality({r \in RowsFor(a, u) : r.status = "sent"}) <= 1

\* two invocations delivered to the same user, one 'sent' row stands
C1_Witness ==
    \E a \in AlertIds, u \in Users :
        /\ Cardinality(DeliveredBy(a, u)) = 2
        /\ \E r \in RowsFor(a, u) : r.status = "sent"
        /\ \A i \in Invocations : Returned(i)

\* C2: for every alert and user at most one invocation executes a
\* successful send_email, under any interleaving.
C2_AtMostOneSender ==
    \A a \in AlertIds, u \in Users : Cardinality(DeliveredBy(a, u)) <= 1

\* C3: two calls for the same alert with the same single recipient and a
\* transport that does not fail: one returns sent=1, skipped=0, the other
\* sent=0, skipped=1, and neither failed=1.
C3_Scenario(i, j) ==
    /\ i # j
    /\ Returned(i) /\ Returned(j)
    /\ alert_id[i] = alert_id[j]
    /\ stats[i].targets = 1 /\ stats[j].targets = 1
    /\ recipients[i] = recipients[j]
    /\ \A s \in SendsBy(i) \cup SendsBy(j) : s.ok
    /\ \A k \in Invocations \ {i, j} : pc[k] = "idle"

C3_OneSentOneSkipped ==
    \A i, j \in Invocations :
        C3_Scenario(i, j) =>
            /\ stats[i].failed = 0 /\ stats[j].failed = 0
            /\ stats[i].sent + stats[j].sent = 1
            /\ stats[i].skipped + stats[j].skipped = 1
            /\ stats[i].sent + stats[i].skipped = 1
            /\ stats[j].sent + stats[j].skipped = 1

\* the scenario where the loser had claimed and sent before losing the race
C3_Witness ==
    \E i, j \in Invocations :
        /\ C3_Scenario(i, j)
        /\ stats[i].sent = 1 /\ stats[j].skipped = 1
        /\ SendsBy(j) # {}

\* C4: a call made after an earlier call for the same alert has returned,
\* with nothing else running, returns processed, eligible, sent=0, failed=0,
\* skipped=targets, calls no transport and adds no row.
C4_Scenario(i) ==
    /\ Returned(i)
    /\ \E j \in prior[i] : alert_id[j] = alert_id[i] /\ stats[j].eligible
    /\ \A k \in Others(i) : k \in prior[i] \/ pc[k] = "idle"

C4_IdempotentRedispatch ==
    \A i \in Invocations :
        C4_Scenario(i) =>
            /\ stats[i] = [processed |-> TRUE, eligible |-> TRUE,
                           targets |-> Len(recipients[i]), sent |-> 0,
                           failed |-> 0, skipped |-> Len(recipients[i])]
            /\ SendsBy(i) = {}
            /\ RowsBy(i) = {}

C4_Witness ==
    \E i \in Invocations :
        /\ C4_Scenario(i)
        /\ stats[i].skipped = NumUsers
        /\ \E r \in ledger : r.status = "failed"
        /\ \E r \in ledger : r.status = "sent"

\* C5: a recipient that had a ledger row (of any status) when the invocation
\* read the ledger, or whose advisory lock another session holds, is
\* skipped: skipped grows by one, no send, no row, the loop goes on.
C5_Blocked(i) ==
    /\ pc[i] = "loop"
    /\ idx[i] <= Len(recipients[i])
    /\ \/ \E r \in snapshot[i] : /\ r.alert_id = alert_id[i]
                                 /\ r.user_id = User(i)
                                 /\ r.channel = "email"
       \/ \E l \in locks : /\ l.key = LockKey(alert_id[i], User(i))
                           /\ l.owner # i

C5_BlockedIsSkipped ==
    [][\A i \in Invocations :
          (C5_Blocked(i) /\ StepOf(i)) =>
              /\ stats'[i] = [stats[i] EXCEPT !.skipped = @ + 1]
              /\ idx'[i] = idx[i] + 1
              /\ pc'[i] = "loop"
              /\ sendlog' = sendlog
              /\ ledger' = ledger
              /\ locks' = locks]_vars

\* one recipient skipped for its 'failed' row, the other for a held lock
C5_Witness ==
    \E i \in Invocations :
        /\ Returned(i)
        /\ stats[i].skipped = 2
        /\ SendsBy(i) = {} /\ RowsBy(i) = {}
        /\ \E r \in snapshot[i] : r.status = "failed" /\ r.alert_id = alert_id[i]
        /\ \E u \in Users :
              /\ \E k \in 1..Len(recipients[i]) : recipients[i][k] = u
              /\ \A r \in snapshot[i] : r.user_id # u

\* C6: when the write of the 'sent' or of the 'failed' row meets an existing
\* row for (alert, user, 'email'), the invocation rolls back, counts the
\* recipient as skipped, leaves the ledger as it is, raises nothing and goes
\* on with the next recipient.
C6_Conflict(i) == RowsFor(alert_id[i], User(i)) # {}
C6_NoLockOf(i) == \A l \in locks' : l.owner # i

C6_ConflictIsSkipped ==
    [][\A i \in Invocations :
          /\ (pc[i] = "commit_sent" /\ C6_Conflict(i) /\ StepOf(i)) =>
                /\ pc'[i] = "rollback"
                /\ stats'[i] = stats[i] /\ idx'[i] = idx[i]
                /\ ledger' = ledger
          /\ (pc[i] = "rollback" /\ C6_Conflict(i) /\ pc'[i] # pc[i]) =>
                /\ pc'[i] = "commit_failed"
                /\ stats'[i] = stats[i] /\ idx'[i] = idx[i]
                /\ ledger' = ledger
                /\ C6_NoLockOf(i)
          /\ (pc[i] = "commit_failed" /\ C6_Conflict(i) /\ StepOf(i)) =>
                /\ pc'[i] = "loop"
                /\ stats'[i] = [stats[i] EXCEPT !.skipped = @ + 1]
                /\ idx'[i] = idx[i] + 1
                /\ ledger' = ledger
                /\ C6_NoLockOf(i)]_vars

\* both conflicts have happened: a sender lost on its 'sent' row, and a
\* failed sender lost on its 'failed' row
C6_Witness ==
    \E i \in Invocations :
        /\ Returned(i)
        /\ stats[i].skipped = 2 /\ stats[i].sent = 0 /\ stats[i].failed = 0
        /\ \E s \in SendsBy(i) : s.ok
        /\ \E s \in SendsBy(i) : ~s.ok
        /\ RowsBy(i) = {}

\* C7 as claimed: the claim of a recipient precedes the composition of the
\* message and its send, and the send precedes the terminal row.
HoldsLock(i) ==
    \E l \in locks : l.key = LockKey(alert_id[i], User(i)) /\ l.owner = i
SentToCurrent(i) == \E s \in SendsBy(i) : s.user_id = User(i)
C7_SendThenWrite(i) ==
    /\ pc[i] = "send" => HoldsLock(i) /\ ~SentToCurrent(i)
    /\ pc[i] \in {"commit_sent", "rollback", "commit_failed"} =>
          SentToCurrent(i) /\ \A r \in RowsBy(i) : r.user_id # User(i)
    /\ \A r \in RowsBy(i) : \E s \in SendsBy(i) : s.user_id = r.user_id

C8_SendFailureDoesNotAbort ==
    \A i \in Invocations :
        /\ (\E s \in SendsBy(i) : ~s.ok) => pc[i] # "raised"
        /\ (Returned(i) /\ stats[i].targets > 0) =>
              /\ idx[i] = Len(recipients[i]) + 1
              /\ stats[i].sent + stats[i].failed + stats[i].skipped
                    = stats[i].targets
        /\ pc[i] \in {"send", "commit_sent", "rollback", "commit_failed"} =>
              stats[i].sent + stats[i].failed + stats[i].skipped = idx[i] - 1

\* the first send raised, the next recipient was still sent to
C8_Witness ==
    \E i \in Invocations :
        /\ Returned(i)
        /\ stats[i].failed = 1 /\ stats[i].sent = 1
        /\ \E r \in RowsBy(i) :
              r.status = "failed" /\ r.user_id = recipients[i][1]

\* C9: one recipient, no prior row, no other invocation, send raises: the
\* call returns sent=0, failed=1, skipped=0 and the ledger holds exactly one
\* row for the recipient, 'failed', with a non-empty error text of at most
\* 2000 characters.
C9_FailedRowHasErrorText ==
    \A i \in Invocations :
        (/\ Returned(i) /\ Alone(i)
         /\ stats[i].targets = 1
         /\ \E s \in SendsBy(i) : ~s.ok) =>
            /\ stats[i].sent = 0 /\ stats[i].failed = 1 /\ stats[i].skipped = 0
            /\ Cardinality(RowsFor(alert_id[i], recipients[i][1])) = 1
            /\ \A r \in RowsFor(alert_id[i], recipients[i][1]) :
                  /\ r.status = "failed"
                  /\ r.error_message # Null
                  /\ Val(r.error_message) > 0
                  /\ Val(r.error_message) <= ERROR_MESSAGE_MAX

\* C10: an alert whose level is not critical, warning or caution returns
\* processed, not eligible, all counters 0, and the call queries no
\* recipients, tries no lock, sends nothing and writes nothing.
C10_LowLevel(i) ==
    /\ pc[i] \notin {"idle", "load"}
    /\ GetAlert(alert_id[i]) # Null
    /\ Alert(i).alert_level \notin {"critical", "warning", "caution"}

C10_SeverityGate ==
    \A i \in Invocations :
        C10_LowLevel(i) =>
            /\ pc[i] \in {"done", "raised"}
            /\ Returned(i) =>
                  stats[i] = [processed |-> TRUE, eligible |-> FALSE,
                              targets |-> 0, sent |-> 0, failed |-> 0,
                              skipped |-> 0]
            /\ did[i] = {"load"}
            /\ SendsBy(i) = {} /\ RowsBy(i) = {}
            /\ \A l \in locks : l.owner # i

C10_Witness ==
    \E i \in Invocations :
        /\ C10_LowLevel(i) /\ Returned(i)
        /\ Alert(i).alert_level = "low"
        /\ \A u \in Users : users[u] = NearbyUser

\* the database raised in this invocation's query of the alert / of the
\* recipients (no later step clears or replaces that exception)
DatabaseRaised(i) == exc[i] = Some(DatabaseError)
LoadRaised(i) == DatabaseRaised(i) /\ did[i] = {"load"}
SelectRaised(i) == DatabaseRaised(i) /\ did[i] = {"load", "select"}
NoEffect(i) ==
    /\ SendsBy(i) = {} /\ RowsBy(i) = {}
    /\ \A l \in locks : l.owner # i

\* C11: for an alert_id with no persisted alert the call raises nothing and
\* returns processed=false, eligible=false and all counters 0; no transport
\* call is made and no row is written.
C11_NotFound(i) ==
    /\ pc[i] \notin {"idle", "load"}
    /\ alert_id[i] \notin {1, 2, 3, 4}
    /\ ~DatabaseRaised(i)

C11_NotFoundReturnsUnprocessed ==
    \A i \in Invocations :
        C11_NotFound(i) =>
            /\ Returned(i)
            /\ stats[i] = [processed |-> FALSE, eligible |-> FALSE,
                           targets |-> 0, sent |-> 0, failed |-> 0,
                           skipped |-> 0]
            /\ did[i] = {"load"}
            /\ NoEffect(i)

\* the other invocation has written to the ledger meanwhile
C11_Witness ==
    \E i \in Invocations :
        /\ C11_NotFound(i) /\ Returned(i)
        /\ ledger # {}

\* C12 as claimed: a database error while the alert is loaded aborts the
\* dispatch without send or ledger write and surfaces as returned stats
\* with processed=false, not as an exception.
C12_LoadErrorReturnsStats ==
    \A i \in Invocations :
        LoadRaised(i) =>
            /\ Returned(i)
            /\ stats[i].processed = FALSE
            /\ NoEffect(i)

\* C12 as amended: the exception leaves notify_for_alert (no stats are
\* returned); nothing was sent and no row was written.
C12_LoadErrorPropagates ==
    \A i \in Invocations :
        LoadRaised(i) =>
            /\ pc[i] = "raised"
            /\ stats[i] = NewStats
            /\ NoEffect(i)

C12_Witness ==
    \E i \in Invocations :
        /\ LoadRaised(i) /\ pc[i] = "raised"
        /\ alert_id[i] = 1
        /\ \E j \in Others(i) : Returned(j) /\ stats[j].sent > 0

\* C13: when the recipient query raises, the exception leaves
\* notify_for_alert, and no transport call was made and no row written by
\* that invocation.
C13_SelectErrorPropagates ==
    \A i \in Invocations :
        SelectRaised(i) =>
            /\ pc[i] = "raised"
            /\ recipients[i] = <<>>
            /\ NoEffect(i)

C13_Witness ==
    \E i \in Invocations :
        /\ SelectRaised(i) /\ pc[i] = "raised"
        /\ stats[i].eligible
        /\ \E u \in Users : users[u] = NearbyUser

\* C14: invocations for two different alerts that share recipients do not
\* interfere: with a transport that does not fail and no prior rows, each
\* sends to every one of its recipients and records its own 'sent' row;
\* neither skips a recipient because of the other.
C14_Scenario(i, j) ==
    /\ i # j
    /\ Returned(i) /\ Returned(j)
    /\ alert_id[i] # alert_id[j]
    /\ stats[i].eligible /\ stats[j].eligible
    /\ \A s \in SendsBy(i) \cup SendsBy(j) : s.ok
    /\ \A k \in Invocations \ {i, j} : pc[k] = "idle"

C14_DifferentAlertsIndependent ==
    \A i, j \in Invocations :
        C14_Scenario(i, j) =>
            /\ stats[i].sent = stats[i].targets
            /\ stats[i].skipped = 0 /\ stats[i].failed = 0
            /\ \A k \in 1..Len(recipients[i]) :
                  /\ \E s \in SendsBy(i) : s.user_id = recipients[i][k]
                  /\ \E r \in RowsBy(i) :
                        /\ r.user_id = recipients[i][k]
                        /\ r.alert_id = alert_id[i]
                        /\ r.status = "sent"

\* both alerts had the same two recipients, and the two invocations
\* overlapped (neither had returned when the other was called)
C14_Witness ==
    \E i, j \in Invocations :
        /\ C14_Scenario(i, j)
        /\ stats[i].targets = NumUsers /\ stats[j].targets = NumUsers
        /\ prior[i] = {} /\ prior[j] = {}
        /\ Cardinality(ledger) = 2 * NumUsers

\* C17: a notifiable alert with N eligible recipients, an empty ledger, no
\* other invocation and a transport that succeeds: the invocation returns
\* processed and eligible with targets = sent = N and failed = skipped = 0,
\* calls the transport once per recipient (a send is made only for the
\* recipient at the loop position, which has not been sent to before), and
\* the ledger then holds one 'sent' row per recipient and nothing else.
C17_Scenario(i) ==
    /\ Returned(i) /\ Alone(i)
    /\ GetAlert(alert_id[i]) # Null
    /\ IsNotifiable(Alert(i).alert_level)
    /\ \A s \in SendsBy(i) : s.ok

C17_HappyPath ==
    \A i \in Invocations :
        /\ pc[i] = "send" => ~SentToCurrent(i)
        /\ C17_Scenario(i) =>
              LET N == Cardinality(NearbyRecipients(Alert(i)))
              IN /\ stats[i] = [processed |-> TRUE, eligible |-> TRUE,
                                targets |-> N, sent |-> N,
                                failed |-> 0, skipped |-> 0]
                 /\ {s.user_id : s \in SendsBy(i)} = NearbyRecipients(Alert(i))
                 /\ \A s \in SendsBy(i) : s.alert_id = alert_id[i]
                 /\ ledger = {[alert_id |-> alert_id[i], user_id |-> u,
                               channel |-> "email", status |-> "sent",
                               error_message |-> Null, by |-> i] :
                                 u \in NearbyRecipients(Alert(i))}
                 /\ \A u \in NearbyRecipients(Alert(i)) :
                       Cardinality(RowsFor(alert_id[i], u)) = 1

\* the case with N = NumUsers recipients
C17_Witness ==
    \E i \in Invocations :
        /\ C17_Scenario(i)
        /\ stats[i].sent = NumUsers
        /\ Cardinality(ledger) = NumUsers

\* C18: no step of any invocation, whatever its outcome, changes the alert
\* (with its sighting) or user records, and every ledger row, once written,
\* stays in the ledger with the status it was written with: the set of rows
\* only grows.
C18_ReadOnlyInputsAppendOnlyLedger ==
    [][/\ alerts' = alerts
       /\ users' = users
       /\ ledger \subseteq ledger'
       /\ \A r \in ledger : \E q \in ledger' :
             /\ q.alert_id = r.alert_id /\ q.user_id = r.user_id
             /\ q.channel = r.channel /\ q.status = r.status]_vars

\* every outcome has happened in one run: a 'sent' row and a 'failed' row
\* were written, and an invocation returned after losing both of its writes
\* to rows that are still there
C18_Witness ==
    /\ \E r \in ledger : r.status = "sent"
    /\ \E r \in ledger : r.status = "failed"
    /\ \E i \in Invocations :
          /\ Returned(i)
          /\ stats[i].skipped = NumUsers
          /\ \E s \in SendsBy(i) : s.ok
          /\ \E s \in SendsBy(i) : ~s.ok
          /\ RowsBy(i) = {}
    /\ alerts = AlertTable

\* C15: every user the recipient selection returned, and every user any
\* invocation sent to, is opted in, has a non-null and non-empty email, has a
\* location and a location timestamp not older than NOTIFY_STALE_MINUTES,
\* and is within NOTIFY_RADIUS_METERS of the sighting; a user whose only
\* defect is a stale timestamp is not selected. (The users table does not
\* change during a run, so the row at selection time is the current row.)
Selected(i) == "select" \in did[i] /\ ~DatabaseRaised(i)
Targets(i) == {recipients[i][k] : k \in 1..Len(recipients[i])}
C15_Qualifies(u, a) ==
    /\ users[u].email_opt_in
    /\ users[u].email # {} /\ users[u].email # {""}
    /\ users[u].location # {}
    /\ users[u].location_updated_at # {}
    /\ \A t \in users[u].location_updated_at : now - t <= NOTIFY_STALE_MINUTES
    /\ a \in DOMAIN alerts
    /\ alerts[a].sighting # {}
    /\ \A p \in users[u].location : \A q \in alerts[a].sighting :
          p - q <= NOTIFY_RADIUS_METERS /\ q - p <= NOTIFY_RADIUS_METERS
C15_Stale(u) ==
    \E t \in users[u].location_updated_at : now - t > NOTIFY_STALE_MINUTES

C15_OnlyEligibleRecipients ==
    /\ \A i \in Invocations : \A u \in Targets(i) : C15_Qualifies(u, alert_id[i])
    /\ \A s \in sendlog : C15_Qualifies(s.user_id, s.alert_id)
    /\ \A i \in Invocations : \A u \in Users :
          C15_Stale(u) => u \notin Targets(i)

\* an invocation selected and sent to the one qualifying user while the
\* other user was stale with every other condition met
C15_Witness ==
    \E i \in Invocations : \E u, v \in Users :
        /\ Returned(i) /\ Selected(i)
        /\ Targets(i) = {u}
        /\ \E s \in SendsBy(i) : s.user_id = u
        /\ C15_Stale(v)
        /\ users[v] = [NearbyUser EXCEPT !.location_updated_at = {0}]

\* C16 as claimed: for an alert with a sighting, a user farther than the
\* radius is never in targets, and a user within the radius with a fresh
\* location and opt-in is always in targets.
C16_Within(u, a) ==
    \E p \in users[u].location : \E q \in alerts[a].sighting :
        p - q <= NOTIFY_RADIUS_METERS /\ q - p <= NOTIFY_RADIUS_METERS
C16_Beyond(u, a) ==
    \E p \in users[u].location : \E q \in alerts[a].sighting :
        p - q > NOTIFY_RADIUS_METERS \/ q - p > NOTIFY_RADIUS_METERS
C16_Fresh(u) ==
    \E t \in users[u].location_updated_at : now - t <= NOTIFY_STALE_MINUTES
C16_HasAddress(u) == users[u].email # {} /\ users[u].email # {""}
C16_Counted(i) == stats[i].targets = Cardinality(Targets(i))

C16_NearFreshOptedInIncluded ==
    \A i \in Invocations : \A u \in Users :
        (Selected(i) /\ alerts[alert_id[i]].sighting # {}) =>
            /\ C16_Counted(i)
            /\ C16_Beyond(u, alert_id[i]) => u \notin Targets(i)
            /\ (/\ C16_Within(u, alert_id[i])
                /\ C16_Fresh(u)
                /\ users[u].email_opt_in) => u \in Targets(i)

\* C16 as the code has it: a user farther than the radius is never in
\* targets, and a user within the radius with a fresh location, opt-in and a
\* non-null, non-empty email is always in targets.
C16_NearFreshOptedInAddressedIncluded ==
    \A i \in Invocations : \A u \in Users :
        (Selected(i) /\ alerts[alert_id[i]].sighting # {}) =>
            /\ C16_Counted(i)
            /\ C16_Beyond(u, alert_id[i]) => u \notin Targets(i)
            /\ (/\ C16_Within(u, alert_id[i])
                /\ C16_Fresh(u)
                /\ users[u].email_opt_in
                /\ C16_HasAddress(u)) => u \in Targets(i)

\* a user exactly at the radius was included while a user one metre beyond
\* it was left out
C16_Witness ==
    \E i \in Invocations : \E u, v \in Users :
        /\ Selected(i) /\ alerts[alert_id[i]].sighting # {}
        /\ u \in Targets(i) /\ v \notin Targets(i)
        /\ users[u].location = {NOTIFY_RADIUS_METERS}
        /\ users[v] = [NearbyUser EXCEPT !.location = {NOTIFY_RADIUS_METERS + 1}]
        /\ stats[i].targets = 1

\* C19: within one pipeline run notify_for_alert is invoked only for alerts
\* that are committed and whose level is notifiable, never twice for the
\* same alert id, and never again once an invocation has returned without
\* raising.
C19_DispatchOncePerRun ==
    /\ \A k \in 1..Len(run.calls) :
          /\ run.calls[k] \in DOMAIN alerts
          /\ alerts[run.calls[k]].alert_level \in {"critical", "warning", "caution"}
    /\ \A j, k \in 1..Len(run.calls) : j # k => run.calls[j] # run.calls[k]
    /\ \A j, k \in 1..Len(run.calls) : j < k => run.calls[j] \notin run.returned
    /\ run.returned \subseteq {run.calls[k] : k \in 1..Len(run.calls)}

\* a run whose first dispatch raised, whose second returned, and which then
\* committed another notifiable alert without dispatching it
C19_Witness ==
    /\ run.pc = "finished"
    /\ Len(run.calls) = 2
    /\ run.returned = {run.calls[2]}
    /\ \E a \in DOMAIN alerts :
          /\ a > run.calls[2]
          /\ alerts[a].alert_level \in {"critical", "warning", "caution"}

\* C20 as claimed: after any sequence of reverse_geocode calls the cache
\* holds at most GEOCODING_CACHE_MAX_SIZE entries, each under a key rounded to
\* six decimals (the oldest-inserted entry making room for a new one).
C20_CacheBounded ==
    /\ Len(geo.cache) <= GEOCODING_CACHE_MAX_SIZE
    /\ \A k \in 1..Len(geo.cache) :
          geo.cache[k].key[1] % 10 = 0 /\ geo.cache[k].key[2] % 10 = 0

\* C21: reverse_geocode never raises; a call whose request fails returns
\* None and leaves the cache as it was, and the next call for the same
\* coordinate makes a new outbound request whose result, if it succeeds, is
\* returned and cached.
C21_LastFailed == geo.enabled /\ geo.calls > 0 /\ geo.last = {}
C21_SameKeyAgain ==
    \E p \in geo.point : \E q \in geo'.point :
        /\ Round6(p[1]) = Round6(q[1])
        /\ Round6(p[2]) = Round6(q[2])

C21_FailureNotCached ==
    [][/\ geo'.outcome # "raised"
       /\ (geo.enabled /\ geo'.outbound = geo.outbound + 1 /\ geo'.last = {}) =>
             geo'.cache = geo.cache
       /\ (C21_LastFailed /\ C21_SameKeyAgain) =>
             /\ geo'.outbound = geo.outbound + 1
             /\ geo'.last # {} =>
                   /\ Len(geo'.cache) = Len(geo.cache) + 1
                   /\ \E r \in geo'.last :
                         geo'.cache[Len(geo'.cache)].result = r]_vars

\* a first request failed and a second one for the same key succeeded: two
\* outbound requests, one entry, and the result returned
C21_Witness ==
    /\ geo.calls = 2 /\ geo.outbound = 2 /\ geo.last # {}
    /\ Len(geo.cache) = 1
    /\ geo.cache[1].key \in geo.failed_keys
    /\ geo.outcome = "returned"

\* C22 as claimed: whenever execute_upload_processing has returned a
\* result, the upload row is in a terminal status equal to that result:
\* 'completed', or 'failed' with an error text of at most 2000 characters;
\* it is never left in 'processing'.  For a missing upload the result is
\* 'failed' and no record was changed.
C22_TerminalStatusReturned ==
    (run.kind = "upload" /\ run.result # {} /\ run.result # {"raised"}) =>
        IF run.status = "missing"
        THEN run.result = {"failed"} /\ alerts = AlertTable
        ELSE /\ run.status \in {"completed", "failed"}
             /\ run.result = {run.status}
             /\ run.status = "failed" =>
                   \A n \in run.error_len : n <= ERROR_MESSAGE_MAX

\* C23: when reverse geocoding returned nothing (it failed, raised inside or
\* timed out) or an address with neither prefecture nor municipality, the
\* message is still composed, its body carries the 'lookup failed' marker as
\* address together with the latitude/longitude line and the map link, and
\* the dispatch sends as usual.
C23_NoAddress(a) ==
    \/ alerts[a].address = {}
    \/ \A r \in alerts[a].address :
          /\ r.prefecture \in {{}, {""}}
          /\ r.municipality \in {{}, {""}}
C23_Composed(i) ==
    pc[i] \in {"loop", "send", "commit_sent", "rollback", "commit_failed"}
        \/ (pc[i] = "done" /\ "compose" \in did[i])

C23_GeocodeFailureMarked ==
    \A i \in Invocations :
        (C23_Composed(i) /\ C23_NoAddress(alert_id[i])) =>
            /\ message[i] # {}
            /\ \A m \in message[i] :
                  /\ m.body.address = <<"lookup failed (see latitude/longitude)">>
                  /\ m.body.position = alerts[alert_id[i]].sighting
                  /\ m.body.position # {}
                  /\ m.body.map = alerts[alert_id[i]].sighting
                  /\ \A s \in SendsBy(i) : s.message = m
            /\ (Returned(i) /\ Alone(i) /\ \A s \in SendsBy(i) : s.ok) =>
                  /\ stats[i].sent = stats[i].targets
                  /\ Cardinality(SendsBy(i)) = stats[i].targets

\* the lookup returned an address without any part, and both recipients
\* were sent the message with the marker
C23_Witness ==
    \E i \in Invocations :
        /\ Returned(i) /\ Alone(i)
        /\ alert_id[i] \in DOMAIN alerts
        /\ alerts[alert_id[i]].address # {}
        /\ C23_NoAddress(alert_id[i])
        /\ stats[i].sent = NumUsers
        /\ \A s \in SendsBy(i) :
              s.ok /\ s.message.body.address =
                         <<"lookup failed (see latitude/longitude)">>

\* C24: when the sighting's image file is missing, outside the storage
\* root, larger than EMAIL_ATTACHMENT_MAX_BYTES, of a type that is not
\* allow-listed or unreadable, the dispatch is not aborted and nobody is
\* counted failed for that reason: every claimed recipient is sent the
\* message without attachment; no message carries more than one attachment.
C24_NoUsableImage(a) ==
    LET image == alerts[a].image
    IN \/ ~image.has_path \/ ~image.inside_root \/ ~image.is_file
       \/ image.size > EMAIL_ATTACHMENT_MAX_BYTES
       \/ image.suffix \notin {".jpg", ".jpeg", ".png", ".gif", ".webp"}
       \/ ~image.readable

C25_Delivered(i) == {s \in SendsBy(i) : s.ok}

C25_DeliveredIsRecordedSent ==
    \A i \in Invocations :
        Returned(i) =>
            /\ \A s \in C25_Delivered(i) :
                  /\ \E r \in RowsFor(s.alert_id, s.user_id) : r.status = "sent"
                  /\ \A r \in RowsFor(s.alert_id, s.user_id) : r.status # "failed"
            /\ stats[i].sent = Cardinality(C25_Delivered(i))

\* C26: an invocation that returned with eligible = true has
\* sent + failed + skipped = targets, every selected recipient having been
\* counted exactly once (while the loop runs the three counters add up to
\* the number of recipients it has finished); one that returned with
\* eligible = false or processed = false has all four counters at 0.
C26_Counted(i) == stats[i].sent + stats[i].failed + stats[i].skipped

C26_CountersAddUp ==
    \A i \in Invocations :
        /\ pc[i] = "loop" => C26_Counted(i) = idx[i] - 1
        /\ pc[i] \in {"send", "commit_sent", "rollback", "commit_failed"} =>
              C26_Counted(i) = idx[i] - 1
        /\ Returned(i) =>
              IF stats[i].eligible
              THEN /\ stats[i].targets = Len(recipients[i])
                   /\ C26_Counted(i) = stats[i].targets
              ELSE /\ stats[i].targets = 0 /\ stats[i].sent = 0
                   /\ stats[i].failed = 0 /\ stats[i].skipped = 0

\* one invocation returned with its recipients spread over two counters,
\* and another returned for an alert that is not eligible
C26_Witness ==
    \E i, j \in Invocations :
        /\ Returned(i) /\ Returned(j)
        /\ stats[i].eligible /\ stats[i].targets = NumUsers
        /\ stats[i].sent = 1 /\ stats[i].failed = 1
        /\ stats[j].processed /\ ~stats[j].eligible

\* C27: under fair scheduling every called invocation eventually finishes,
\* by returning its stats or by raising, whatever the other invocations do:
\* an unfinished invocation can always take a step of its own (the try-lock
\* answers at once, nothing waits on another invocation), an invocation holds
\* the advisory lock of at most one (alert, user) at a time, holds none
\* between two recipients, and holds none once it has finished.
Finished(i) == pc[i] \in {"done", "raised"}
LocksOf(i) == {l \in locks : l.owner = i}
C27_LockDiscipline ==
    \A i \in Invocations :
        /\ Cardinality(LocksOf(i)) <= 1
        /\ Finished(i) => LocksOf(i) = {}
        /\ pc[i] \in {"idle", "load", "select", "existing", "compose", "loop"} =>
              LocksOf(i) = {}
        /\ \A l \in LocksOf(i) : l.key = LockKey(alert_id[i], User(i))
C27_NeverWaits ==
    \A i \in Invocations :
        pc[i] # "idle" /\ ~Finished(i) => ENABLED Proceed(i)
C27_EventuallyFinishes ==
    /\ [](C27_LockDiscipline /\ C27_NeverWaits)
    /\ \A i \in Invocations : (pc[i] # "idle") ~> Finished(i)

\* both invocations ran at the same time on the same alert, one of them lost
\* a recipient to the other, and both have finished with no lock left
C27_Witness ==
    /\ \A i \in Invocations : Returned(i)
    /\ locks = {}
    /\ \E i \in Invocations :
          /\ stats[i].eligible /\ stats[i].skipped >= 1
          /\ snapshot[i] = {}
          /\ \E j \in Others(i) :
                /\ alert_id[j] = alert_id[i]
                /\ \E r \in RowsBy(j) : r.alert_id = alert_id[i]

\* C28: when notify_for_alert raises during a run, the run goes on with its
\* remaining frames (it does not take the failure path, and the upload is
\* still 'processing', on its way to 'completed'), every alert committed
\* before the attempt is still stored, and the notification-dispatched flag
\* stays false, so that the next notifiable alert of the run is attempted.
C28_NotifyRaised == run.pc = "notify" /\ run'.raised # run.raised
C28_NotifyFailureTolerated ==
    [][C28_NotifyRaised =>
          /\ run'.pc = "next"
          /\ run'.status = "processing"
          /\ alerts' = alerts
          /\ run'.notification_dispatched = FALSE]_vars

\* C29: once stop_session has returned, the session stays 'stopped' and no
\* frame is accepted: frames_received, frames_processed and detections_count
\* do not increase and no sighting or alert is stored for the session,
\* whatever frame-upload and stop requests are under way.
C29_StopIsFinal ==
    [][stream.stop # "idle" =>
          /\ stream'.status = "stopped"
          /\ stream'.frames_received = stream.frames_received
          /\ stream'.frames_processed = stream.frames_processed
          /\ stream'.detections_count = stream.detections_count
          /\ stream'.sightings = stream.sightings]_vars

\* C30: whatever the interleaving of the sync calls for one Firebase uid,
\* there is at most one users row for the uid; at most one call reports
\* created = true, and exactly one once all calls of a first login have
\* returned; a call that lost the insert race never raises: it ends by
\* writing its email and name into the existing row and returns it with
\* created = false.
Creators == {c \in SyncCalls : sync.created[c] = {TRUE}}
C30_State ==
    /\ Cardinality(sync.rows) <= 1
    /\ Cardinality(Creators) <= 1
    /\ \A c \in SyncCalls :
          /\ sync.pc[c] # "raised"
          /\ sync.lost[c] /\ sync.pc[c] = "returned" =>
                sync.created[c] = {FALSE}
    /\ (\A c \in SyncCalls : sync.pc[c] = "returned")
          /\ (\A r \in sync.rows : r.id # 0) =>
             /\ Cardinality(Creators) = 1
             /\ \E r \in sync.rows : r.id \in Creators
C30_LoserUpdates ==
    \A c \in SyncCalls :
        sync.lost[c] /\ sync.pc[c] # "returned" /\ sync'.pc[c] = "returned" =>
            /\ sync'.rows # {}
            /\ \A r \in sync'.rows : r.email = c
====
